---- MODULE Spec2Model ----
(***************************************************************************)
(* Matching and session-lifecycle core of the chat backend (src/app.py):   *)
(* the waiting list, the rooms map, the transport's room membership and    *)
(* the six socket event handlers.                                          *)
(*                                                                         *)
(* A handler is cut into segments: a segment is the code up to and         *)
(* including the next call of the transport (emit, join_room, leave_room). *)
(* Spec runs every handler to its end in one step (serialized delivery);   *)
(* SpecConc lets handlers of different connections interleave between      *)
(* segments (a cooperative scheduler switching at transport calls).        *)
(***************************************************************************)
EXTENDS Integers, Sequences, FiniteSets, TLC

\* ------------------------------------------------------------- bounds
NumConns == 2          \* connections that ever connect
MaxFind == 4           \* find_partner events handled in one run
MaxInFlight == 2       \* handlers suspended at a transport call at once

Sids == 1..NumConns
\* The `interests` payloads clients send (lists of strings, .get default []).
InterestLists ==
    {<<>>, <<"music">>, <<"film">>, <<"film", "music">>}
NoRoom == 0            \* a missing or empty `room` field

VARIABLES
    waiting_users,     \* list of entries [sid, interests, enq]
    rooms,             \* room_id -> <<user1_sid, user2_sid>>
    members,           \* transport: room_id -> sids that joined it
    nextRoom,          \* the next fresh room id (uuid4)
    nextEnq,           \* the stamp the next appended entry gets
    clients,           \* sid -> "new" | "connected" | "gone"
    frames,            \* sid -> the frame of its handler in flight
    out,               \* what the last step emitted
    error,             \* the exception the last step raised
    lastMatch          \* the match the last step made

vars == <<waiting_users, rooms, members, nextRoom, nextEnq, clients, frames,
          out, error, lastMatch>>

\* ------------------------------------------------------------ helpers
\* set(interests)
ToSet(list) == {list[i] : i \in DOMAIN list}

Min(S) == CHOOSE x \in S : \A y \in S : x <= y

NoEntry == [sid |-> 0, interests |-> <<>>, enq |-> 0]
NoMatch == [seeker |-> 0, interests |-> <<>>, other |-> NoEntry,
            room |-> NoRoom, common |-> {}]

IdleFrame == [handler |-> "none", pc |-> "idle", interests |-> <<>>,
              room_id |-> NoRoom, other |-> NoEntry]

StartFrame(handler, interests) ==
    [IdleFrame EXCEPT !.handler = handler, !.pc = "start",
                      !.interests = interests]

\* The shared state a handler works on, with the step's log empty.
Store ==
    [waiting_users |-> waiting_users, rooms |-> rooms, members |-> members,
     nextRoom |-> nextRoom, nextEnq |-> nextEnq,
     out |-> <<>>, error |-> "none", lastMatch |-> NoMatch]

\* Equality of two waiting dicts: the stamp is no field of the dict.
SameEntry(e, o) == e.sid = o.sid /\ e.interests = o.interests

\* ---------------------------------------------------------- transport
\* emit(..., room=<sid>) reaches the connection of that sid while it is
\* connected.
ToSid(sid) == {c \in Sids : c = sid /\ clients[c] = "connected"}

\* The connected members of a room that join_room created.
ToRoom(s, rid) ==
    {c \in Sids : /\ rid \in DOMAIN s.members
                  /\ c \in s.members[rid]
                  /\ clients[c] = "connected"}

Emit(s, event, to, room, common) ==
    [s EXCEPT !.out = Append(@, [event |-> event, to |-> to, room |-> room,
                                 common |-> common])]

JoinRoom(s, rid, sid) ==
    LET m == s.members
    IN  [s EXCEPT !.members =
            [r \in DOMAIN m \cup {rid} |->
                (IF r \in DOMAIN m THEN m[r] ELSE {}) \cup
                (IF r = rid THEN {sid} ELSE {})]]

LeaveRoom(s, rid, sid) ==
    LET m == s.members
    IN  [s EXCEPT !.members =
            [r \in DOMAIN m |-> IF r = rid THEN m[r] \ {sid} ELSE m[r]]]

Finish(s, f) == [s |-> s, f |-> [f EXCEPT !.pc = "done"]]
Raise(s, f, exc) ==
    [s |-> [s EXCEPT !.error = exc], f |-> [f EXCEPT !.pc = "failed"]]

\* -------------------------------------------------------- match_users
\* set(interests).intersection(set(other['interests']))
Common(interests, theirs) == ToSet(interests) \cap ToSet(theirs)

\* Mutant: the test `if common:` dropped, the first entry always taken.
CompatibleAlways(interests, theirs) == TRUE

\* Mutant: no two interest lists are ever compatible.
CompatibleNever(interests, theirs) == FALSE

\* `if common:`
Compatible(interests, theirs) == Common(interests, theirs) # {}

\* Mutant: the loop keeps going and ends on the last compatible entry.
LastCompatible(pool, interests) ==
    LET hits == {i \in DOMAIN pool : Compatible(interests, pool[i].interests)}
    IN  IF hits = {} THEN 0 ELSE CHOOSE i \in hits : \A j \in hits : j <= i

\* `for other in waiting_users: ... if common:` - the index of the entry the
\* loop stops at, 0 when it runs to the end.
FirstCompatible(pool, interests) ==
    LET hits == {i \in DOMAIN pool : Compatible(interests, pool[i].interests)}
    IN  IF hits = {} THEN 0 ELSE Min(hits)

\* Mutant: the new entry inserted at the head of the list.
EnqueueFront(pool, entry) == <<entry>> \o pool

\* waiting_users.append({'sid': user_sid, 'interests': interests})
Enqueue(pool, entry) == Append(pool, entry)

\* list.remove(other): the list without its first element equal to other.
RemoveAt(pool, i) ==
    [j \in 1..(Len(pool) - 1) |-> IF j < i THEN pool[j] ELSE pool[j + 1]]

IndexOf(pool, other) ==
    LET hits == {i \in DOMAIN pool : SameEntry(pool[i], other)}
    IN  IF hits = {} THEN 0 ELSE Min(hits)

\* find_partner, no match: append and emit `waiting` to the seeker.
FpWait(s, c, f) ==
    LET entry == [sid |-> c, interests |-> f.interests, enq |-> s.nextEnq]
        s1 == [s EXCEPT !.waiting_users = Enqueue(@, entry),
                        !.nextEnq = @ + 1]
    IN  Finish(Emit(s1, "waiting", ToSid(c), NoRoom, {}), f)

\* match_users from its loop to join_room(room_id, sid=user_sid), or, with
\* no compatible entry, the rest of find_partner.
MuScan(s, c, f) ==
    LET i == FirstCompatible(s.waiting_users, f.interests)
    IN  IF i = 0 THEN FpWait(s, c, f)
        ELSE
        LET other == s.waiting_users[i]
            room_id == s.nextRoom
            s1 == [s EXCEPT
                     !.rooms = [r \in DOMAIN @ \cup {room_id} |->
                                  IF r = room_id THEN <<c, other.sid>>
                                  ELSE @[r]],
                     !.nextRoom = @ + 1,
                     !.lastMatch =
                         [seeker |-> c, interests |-> f.interests,
                          other |-> other, room |-> room_id,
                          common |-> Common(f.interests, other.interests)]]
        IN  [s |-> JoinRoom(s1, room_id, c),
             f |-> [f EXCEPT !.pc = "mu_join2", !.room_id = room_id,
                             !.other = other]]

\* join_room(room_id, sid=other['sid'])
MuJoin2(s, c, f) ==
    [s |-> JoinRoom(s, f.room_id, f.other.sid),
     f |-> [f EXCEPT !.pc = "mu_remove"]]

\* waiting_users.remove(other), then emit `matched` to the seeker.
MuRemove(s, c, f) ==
    LET i == IndexOf(s.waiting_users, f.other)
    IN  IF i = 0 THEN Raise(s, f, "ValueError")
        ELSE
        LET s1 == [s EXCEPT !.waiting_users = RemoveAt(@, i)]
        IN  [s |-> Emit(s1, "matched", ToSid(c), f.room_id,
                        Common(f.interests, f.other.interests)),
             f |-> [f EXCEPT !.pc = "mu_emit2"]]

\* emit `matched` to the partner; return True.
MuEmit2(s, c, f) ==
    Finish(Emit(s, "matched", ToSid(f.other.sid), f.room_id,
                Common(f.interests, f.other.interests)), f)

\* ------------------------------------------------- leave_current_room
Users(users) == {users[1], users[2]}

\* What follows leave_current_room in the handler that called it.
AfterLeave(s, c, f) ==
    IF f.handler = "find_partner" THEN MuScan(s, c, f) ELSE Finish(s, f)

\* The loop over list(rooms.items()) up to its first transport call: the
\* first room holding user_sid, in the dict's (insertion) order.
LcrScan(s, c, f) ==
    LET mine == {r \in DOMAIN s.rooms : c \in Users(s.rooms[r])}
    IN  IF mine = {} THEN AfterLeave(s, c, f)
        ELSE
        LET room_id == Min(mine)
            other_user == SelectSeq(s.rooms[room_id], LAMBDA u : u # c)
            f1 == [f EXCEPT !.room_id = room_id]
        IN  IF other_user # <<>>
            THEN [s |-> Emit(s, "partner_left", ToSid(other_user[1]),
                             NoRoom, {}),
                  f |-> [f1 EXCEPT !.pc = "lcr_leave"]]
            ELSE [s |-> LeaveRoom(s, room_id, c),
                  f |-> [f1 EXCEPT !.pc = "lcr_del"]]

\* leave_room(room_id, sid=user_sid)
LcrLeave(s, c, f) ==
    [s |-> LeaveRoom(s, f.room_id, c), f |-> [f EXCEPT !.pc = "lcr_del"]]

\* del rooms[room_id]; break
LcrDel(s, c, f) ==
    IF f.room_id \notin DOMAIN s.rooms THEN Raise(s, f, "KeyError")
    ELSE AfterLeave(
            [s EXCEPT !.rooms = [r \in DOMAIN @ \ {f.room_id} |-> @[r]]],
            c, f)

\* ------------------------------------------------------ the handlers
\* Mutant: the filter of on_disconnect drops every entry, not only those of
\* the sid.
DisconnectDropsPool(s, c, f) ==
    LcrScan([s EXCEPT !.waiting_users = <<>>], c, f)

\* on_disconnect up to its first transport call.
DisconnectStart(s, c, f) ==
    LcrScan([s EXCEPT !.waiting_users =
                 SelectSeq(@, LAMBDA u : u.sid # c)], c, f)

\* One segment of the handler of connection c in frame f.
Step(s, c, f) ==
    CASE f.pc = "start" /\ f.handler = "disconnect" -> DisconnectStart(s, c, f)
      [] f.pc = "start" /\ f.handler = "find_partner" -> LcrScan(s, c, f)
      [] f.pc = "lcr_leave" -> LcrLeave(s, c, f)
      [] f.pc = "lcr_del" -> LcrDel(s, c, f)
      [] f.pc = "mu_join2" -> MuJoin2(s, c, f)
      [] f.pc = "mu_remove" -> MuRemove(s, c, f)
      [] f.pc = "mu_emit2" -> MuEmit2(s, c, f)

Ended(f) == f.pc \in {"done", "failed"}

\* The handler run to its end with no other handler in between.
RECURSIVE Run(_, _, _)
Run(s, c, f) ==
    IF Ended(f) THEN [s |-> s, f |-> f]
    ELSE LET r == Step(s, c, f) IN Run(r.s, c, r.f)

\* Mutant: handle_message without `if not room: return`.
MessageUnguarded(s, c, room) ==
    Emit(s, "new_message", ToRoom(s, room) \ {c}, room, {})

\* handle_message: `if not room: return`, else the transport relays to the
\* members of the room, the sender excluded (include_self=False).
Message(s, c, room) ==
    IF room = NoRoom THEN s
    ELSE Emit(s, "new_message", ToRoom(s, room) \ {c}, room, {})

\* handle_typing and handle_stop_typing, which differ in the event's name.
Typing(s, c, room, event) ==
    IF room \in DOMAIN s.rooms
    THEN LET other_user == SelectSeq(s.rooms[room], LAMBDA u : u # c)
         IN  IF other_user # <<>>
             THEN Emit(s, event, ToSid(other_user[1]), NoRoom, {})
             ELSE s
    ELSE s

\* The `room` fields a client may send: none, or an id a match handed out.
RoomFields == {NoRoom} \cup (1..(nextRoom - 1))

Commit(s) ==
    /\ waiting_users' = s.waiting_users
    /\ rooms' = s.rooms
    /\ members' = s.members
    /\ nextRoom' = s.nextRoom
    /\ nextEnq' = s.nextEnq
    /\ out' = s.out
    /\ error' = s.error
    /\ lastMatch' = s.lastMatch

\* find_partner events begun so far: each ends in a room or in an entry.
Begun ==
    (nextRoom - 1) + (nextEnq - 1) +
    Cardinality({c \in Sids : /\ frames[c].handler = "find_partner"
                              /\ frames[c].pc \in {"lcr_leave", "lcr_del"}})

Init ==
    /\ waiting_users = <<>>
    /\ rooms = <<>>
    /\ members = <<>>
    /\ nextRoom = 1
    /\ nextEnq = 1
    /\ clients = [c \in Sids |-> "new"]
    /\ frames = [c \in Sids |-> IdleFrame]
    /\ out = <<>>
    /\ error = "none"
    /\ lastMatch = NoMatch

\* on_connect. The transport hands out a fresh sid per connection: the
\* sids are numbered in the order the connections arrive.
Connect(c) ==
    /\ clients[c] = "new"
    /\ \A b \in Sids : b < c => clients[b] # "new"
    /\ clients' = [clients EXCEPT ![c] = "connected"]
    /\ Commit(Emit(Store, "connected", {c}, NoRoom, {}))
    /\ UNCHANGED frames

HandleMessage(c, room) ==
    /\ clients[c] = "connected"
    /\ Commit(Message(Store, c, room))
    /\ UNCHANGED <<clients, frames>>

HandleTyping(c, room) ==
    /\ clients[c] = "connected"
    /\ Commit(Typing(Store, c, room, "typing"))
    /\ UNCHANGED <<clients, frames>>

HandleStopTyping(c, room) ==
    /\ clients[c] = "connected"
    /\ Commit(Typing(Store, c, room, "stop_typing"))
    /\ UNCHANGED <<clients, frames>>

\* find_partner, run to its end.
FindPartner(c, interests) ==
    /\ clients[c] = "connected"
    /\ Begun < MaxFind
    /\ Commit(Run(Store, c, StartFrame("find_partner", interests)).s)
    /\ UNCHANGED <<clients, frames>>

\* on_disconnect, run to its end; the sid is never used again.
Disconnect(c) ==
    /\ clients[c] = "connected"
    /\ clients' = [clients EXCEPT ![c] = "gone"]
    /\ Commit(Run(Store, c, StartFrame("disconnect", <<>>)).s)
    /\ UNCHANGED frames

Next ==
    \/ \E c \in Sids : Connect(c)
    \/ \E c \in Sids, interests \in InterestLists : FindPartner(c, interests)
    \/ \E c \in Sids : Disconnect(c)
    \/ \E c \in Sids, room \in RoomFields : HandleMessage(c, room)
    \/ \E c \in Sids, room \in RoomFields : HandleTyping(c, room)
    \/ \E c \in Sids, room \in RoomFields : HandleStopTyping(c, room)

Spec == Init /\ [][Next]_vars

\* ------------------------------------------- interleaved handlers
\* A connection has at most one handler in flight (its next event is taken
\* up when the handler of the previous one has ended); handlers of different
\* connections interleave freely, up to MaxInFlight at once.
\* The frame a segment leaves behind: none once the handler has ended.
Park(c, f) ==
    frames' = [frames EXCEPT ![c] = IF Ended(f) THEN IdleFrame ELSE f]

InFlight == {c \in Sids : frames[c].pc # "idle"}

BeginFindPartner(c, interests) ==
    /\ clients[c] = "connected"
    /\ frames[c].pc = "idle"
    /\ Cardinality(InFlight) < MaxInFlight
    /\ Begun < MaxFind
    /\ LET r == Step(Store, c, StartFrame("find_partner", interests))
       IN  Commit(r.s) /\ Park(c, r.f)
    /\ UNCHANGED clients

BeginDisconnect(c) ==
    /\ clients[c] = "connected"
    /\ frames[c].pc = "idle"
    /\ Cardinality(InFlight) < MaxInFlight
    /\ clients' = [clients EXCEPT ![c] = "gone"]
    /\ LET r == Step(Store, c, StartFrame("disconnect", <<>>))
       IN  Commit(r.s) /\ Park(c, r.f)

\* The scheduler switches back to the handler of connection c.
Resume(c) ==
    /\ frames[c].pc # "idle"
    /\ LET r == Step(Store, c, frames[c])
       IN  Commit(r.s) /\ Park(c, r.f)
    /\ UNCHANGED clients

\* The relay handlers (message, typing, stop_typing) make one transport call
\* and write no shared state: they are steps of Next and not repeated here.
NextConc ==
    \/ \E c \in Sids : Connect(c)
    \/ \E c \in Sids, interests \in InterestLists :
          BeginFindPartner(c, interests)
    \/ \E c \in Sids : BeginDisconnect(c)
    \/ \E c \in Sids : Resume(c)

SpecConc == Init /\ [][NextConc]_vars

\* ------------------------------------------------------------ claims
InRooms(c) == {r \in DOMAIN rooms : c \in Users(rooms[r])}
Waiting(c) == {i \in DOMAIN waiting_users : waiting_users[i].sid = c}
Matched == {k \in DOMAIN out : out[k].event = "matched"}
Overlap(entry) == ToSet(lastMatch.interests) \cap ToSet(entry.interests)

\* C1: every connection is a participant of at most one room of the rooms
\* map.
C1_AtMostOneRoom == \A c \in Sids : Cardinality(InRooms(c)) <= 1

\* C2: every room of the rooms map has exactly 2 participants, and the two
\* are distinct connections.
C2_TwoDistinctParticipants ==
    \A r \in DOMAIN rooms :
        Len(rooms[r]) = 2 /\ rooms[r][1] # rooms[r][2]

\* C3: with find_partner handlers interleaved at transport calls, no waiting
\* entry is taken as partner by two matches, and no handler fails removing
\* an entry another handler already removed.
C3_EntryConsumedOnce ==
    /\ \A a, b \in Sids :
          (a # b /\ frames[a].other # NoEntry) =>
              frames[a].other.enq # frames[b].other.enq
    /\ error # "ValueError"

\* C4: once the disconnect handler of a connection has completed, the
\* connection is in no waiting entry and in no room, and stays so.
C4_GoneLeavesNothing ==
    \A c \in Sids :
        (clients[c] = "gone" /\ frames[c].pc = "idle") =>
            Waiting(c) = {} /\ InRooms(c) = {}

\* C5: a room is created for a seeker and a waiting entry only if their
\* interest sets intersect; a party with no interests is never paired.
C5_OnlyCompatiblePaired ==
    lastMatch # NoMatch =>
        /\ rooms[lastMatch.room] = <<lastMatch.seeker, lastMatch.other.sid>>
        /\ Overlap(lastMatch.other) # {}
        /\ lastMatch.interests # <<>>
        /\ lastMatch.other.interests # <<>>

\* A match made while an entry with no interests sits in the pool.
C5_Witness ==
    /\ lastMatch # NoMatch
    /\ \E i \in DOMAIN waiting_users : waiting_users[i].interests = <<>>

\* C6: on a match exactly the two participants of the new room receive one
\* `matched` each, both with the room's id and with the same common set, the
\* intersection of the seeker's and the waiting entry's interests.
C6_BothNotifiedOnce ==
    lastMatch # NoMatch =>
        /\ \A p \in Sids :
              Cardinality({k \in Matched : p \in out[k].to}) =
                  IF p \in Users(rooms[lastMatch.room]) THEN 1 ELSE 0
        /\ \A k \in Matched :
              /\ out[k].room = lastMatch.room
              /\ out[k].common = Overlap(lastMatch.other)

\* C7: find_partner pairs the seeker with the earliest-enqueued compatible
\* entry: no compatible entry still in the pool was enqueued before the
\* partner's.
C7_EarliestCompatible ==
    lastMatch # NoMatch =>
        /\ rooms[lastMatch.room][2] = lastMatch.other.sid
        /\ \A i \in DOMAIN waiting_users :
              Overlap(waiting_users[i]) # {} =>
                  waiting_users[i].enq > lastMatch.other.enq

\* A match that left a later entry in the pool that the seeker's interests
\* intersect as well.
C7_Witness ==
    /\ lastMatch # NoMatch
    /\ lastMatch.seeker # lastMatch.other.sid
    /\ \E i \in DOMAIN waiting_users :
          /\ Overlap(waiting_users[i]) # {}
          /\ waiting_users[i].sid # lastMatch.seeker

\* C8: the waiting pool holds at most one entry per connection.
C8_OneEntryPerConnection ==
    \A c \in Sids : Cardinality(Waiting(c)) <= 1

\* C9: no connection is a participant of a room and the owner of a waiting
\* entry at once.
C9_RoomOrPool ==
    \A c \in Sids : InRooms(c) # {} => Waiting(c) = {}

\* C10: when a participant of room R disconnects, the other participant
\* receives `partner_left`, R leaves the rooms map, and neither former
\* participant is in a room afterwards; the one left behind is in no room
\* and not in the waiting pool.
C10_DisconnectTearsDown ==
    [][\A c \in Sids :
          (clients[c] = "connected" /\ clients'[c] = "gone") =>
              \A r \in InRooms(c) :
                  /\ r \notin DOMAIN rooms'
                  /\ \A q \in Users(rooms[r]) :
                        /\ \A x \in DOMAIN rooms' : q \notin Users(rooms'[x])
                        /\ \A i \in DOMAIN waiting_users' :
                              waiting_users'[i].sid # q
                  /\ \A q \in Users(rooms[r]) \ {c} :
                        \E k \in DOMAIN out' :
                            /\ out'[k].event = "partner_left"
                            /\ q \in out'[k].to]_vars

\* The state find_partner(interests) of connection c leaves, run from the
\* current state, and likewise on_disconnect.
AfterFind(c, interests) ==
    Run(Store, c, StartFrame("find_partner", interests)).s
AfterDisconnect(c) == Run(Store, c, StartFrame("disconnect", <<>>)).s
RoomsOf(s, c) == {r \in DOMAIN s.rooms : c \in Users(s.rooms[r])}
EntriesOf(s, c) ==
    {i \in DOMAIN s.waiting_users : s.waiting_users[i].sid = c}
Sent(s, event) == {k \in DOMAIN s.out : s.out[k].event = event}

\* C11: find_partner of a participant of a room removes that room and sends
\* its peer `partner_left` before any match; afterwards the seeker is in
\* exactly one room, a new one, or in no room and in the waiting pool.
C11_FindPartnerLeavesRoom ==
    \A c \in Sids, interests \in InterestLists :
        (clients[c] = "connected" /\ InRooms(c) # {}) =>
            LET s2 == AfterFind(c, interests)
                now == RoomsOf(s2, c)
            IN  /\ \A r \in InRooms(c) :
                      /\ r \notin DOMAIN s2.rooms
                      /\ \A q \in Users(rooms[r]) \ {c} :
                            \E k \in Sent(s2, "partner_left") :
                                /\ q \in s2.out[k].to
                                /\ \A m \in Sent(s2, "matched") : k < m
                /\ \/ Cardinality(now) = 1 /\ now \cap DOMAIN rooms = {}
                   \/ now = {} /\ EntriesOf(s2, c) # {}

\* C12: the disconnect handler run a second time for a connection changes
\* neither the waiting pool nor the rooms map and emits nothing.
C12_DisconnectIdempotent ==
    \A c \in Sids :
        clients[c] = "gone" =>
            LET s2 == AfterDisconnect(c)
            IN  /\ s2.waiting_users = waiting_users
                /\ s2.rooms = rooms
                /\ s2.out = <<>>

\* C13: a `message` with a non-empty room field is received by exactly the
\* participants the rooms map lists for that room, the sender excluded; by
\* nobody once the room is torn down.
C13_RelayToParticipants ==
    \A c \in Sids, room \in RoomFields \ {NoRoom} :
        clients[c] = "connected" =>
            LET s2 == Message(Store, c, room)
                got == UNION {s2.out[k].to : k \in Sent(s2, "new_message")}
                participants ==
                    IF room \in DOMAIN rooms THEN Users(rooms[room]) ELSE {}
            IN  got = participants \ {c}

\* C14: find_partner with missing or empty interests changes neither the
\* waiting pool nor the rooms map and emits nothing.
C14_EmptyInterestsNoOp ==
    \A c \in Sids :
        clients[c] = "connected" =>
            LET s2 == AfterFind(c, <<>>)
            IN  /\ s2.waiting_users = waiting_users
                /\ s2.rooms = rooms
                /\ s2.out = <<>>

\* C15: `typing` or `stop_typing` from a participant of an existing room is
\* received by exactly one connection, the other participant, never by the
\* sender; for a room id not in the rooms map nothing is emitted and the
\* waiting pool and the rooms map stay as they are.
C15_TypingToPeerOnly ==
    \A c \in Sids, room \in RoomFields, event \in {"typing", "stop_typing"} :
        clients[c] = "connected" =>
            LET s2 == Typing(Store, c, room, event)
                got == UNION {s2.out[k].to : k \in Sent(s2, event)}
            IN  /\ (room \in DOMAIN rooms /\ c \in Users(rooms[room])) =>
                      /\ Cardinality(Sent(s2, event)) = 1
                      /\ Cardinality(got) = 1
                      /\ got = Users(rooms[room]) \ {c}
                /\ room \notin DOMAIN rooms =>
                      /\ s2.out = <<>>
                      /\ s2.waiting_users = waiting_users
                      /\ s2.rooms = rooms

\* C16: the disconnect of a connection that is in neither the waiting pool
\* nor a room leaves both unchanged, emits nothing and raises nothing.
C16_IdleDisconnectNoOp ==
    [][\A c \in Sids :
          (/\ clients[c] = "connected" /\ clients'[c] = "gone"
           /\ Waiting(c) = {} /\ InRooms(c) = {}) =>
              /\ waiting_users' = waiting_users
              /\ rooms' = rooms
              /\ out' = <<>>
              /\ error' = "none"]_vars

\* An idle connection has gone while another one waits, and nothing was
\* emitted.
C16_Witness ==
    /\ \E c \in Sids :
          clients[c] = "gone" /\ Waiting(c) = {} /\ InRooms(c) = {}
    /\ waiting_users # <<>>
    /\ out = <<>>
    /\ error = "none"

\* C17: a `message` whose room field is absent or empty makes no emit,
\* raises nothing and leaves the waiting pool and the rooms map unchanged.
C17_EmptyRoomDropped ==
    \A c \in Sids :
        clients[c] = "connected" =>
            LET s2 == Message(Store, c, NoRoom)
            IN  /\ s2.out = <<>>
                /\ s2.error = "none"
                /\ s2.waiting_users = waiting_users
                /\ s2.rooms = rooms

\* Nothing was emitted by the last event, handled while a room with both
\* members connected and a waiting entry exist.
C17_Witness ==
    /\ out = <<>>
    /\ error = "none"
    /\ waiting_users # <<>>
    /\ \E r \in DOMAIN rooms :
          Cardinality(ToRoom(Store, r)) = 2

C19_TornDownOnce ==
    /\ error # "KeyError"
    /\ \A k \in DOMAIN out :
          out[k].event = "partner_left" =>
              \A q \in out[k].to :
                  ~ /\ frames[q].pc = "lcr_del"
                    /\ \A r \in DOMAIN members : q \notin members[r]

\* C20: with handlers run one at a time, any two entries at different
\* positions of the waiting pool have disjoint interest sets.
C20_WaitersDisjoint ==
    \A i, j \in DOMAIN waiting_users :
        i # j =>
            ToSet(waiting_users[i].interests) \cap
                ToSet(waiting_users[j].interests) = {}

\* Two connections wait, each with interests of its own.
C20_Witness ==
    /\ Len(waiting_users) >= 2
    /\ \A i \in DOMAIN waiting_users : waiting_users[i].interests # <<>>
    /\ waiting_users[1].sid # waiting_users[2].sid

====
